---- MODULE Spec2Model ----
(***************************************************************************)
(* Chronoscope: the epoch table and the parameter interpolator (epochs.py), *)
(* the visual transformation pipeline (processors/visual.py), the          *)
(* soundscape generator (processors/sound.py) and the handler of app.py.   *)
(*                                                                         *)
(* Numbers.  Every real of the program is a rational on a fixed grid.      *)
(* A temporal level is num/Unit; a VisualParams field is n/Scale with      *)
(* Scale = 100 * Unit, so the table literals (hundredths) and every lerp   *)
(* of them at a grid level are exact integers.  Binary floating-point      *)
(* rounding is not modelled.                                               *)
(* Strings of the table are transliterated to ASCII.                       *)
(***************************************************************************)
EXTENDS Integers, Sequences, FiniteSets, TLC

\* ------------------------------------------------------------------ bounds
\* Levels are multiples of 1/(2*HalfSteps).
HalfSteps == 1
\* Levels range over [-LevelSpan, 6 + LevelSpan], plus the far levels below.
LevelSpan == 2

Unit == 2 * HalfSteps
Scale == 100 * Unit

\* a table literal given in hundredths, as a numerator over Scale
Hundredths(h) == h * Unit

\* Optional values: None is the empty tuple, Some(x) the one-element tuple.
None == <<>>
Some(x) == <<x>>

\* ------------------------------------------------------------- epochs.py
\* dataclass VisualParams
VisualParams(sepia, blur, noise, vignette, saturation, contrast, fade) ==
    [sepia |-> Hundredths(sepia), blur |-> Hundredths(blur),
     noise |-> Hundredths(noise), vignette |-> Hundredths(vignette),
     saturation |-> Hundredths(saturation), contrast |-> Hundredths(contrast),
     fade |-> Hundredths(fade)]

\* dataclass Epoch
Epoch(level, name, name_en, period, description, description_en, visual, soundscape, soundscape_en, audio_prompt) ==
    [level |-> level, name |-> name, name_en |-> name_en, period |-> period,
     description |-> description, description_en |-> description_en,
     visual |-> visual, soundscape |-> soundscape,
     soundscape_en |-> soundscape_en, audio_prompt |-> audio_prompt]

Epoch0 ==
    Epoch(0, "Present", "Present", "2020-2025",
          "Net, couleurs vives, le monde tel qu'il est",
          "Clear, vivid colors, the world as it is",
          VisualParams(0, 0, 0, 0, 100, 100, 0),
          <<"Trafic urbain moderne", "Notifications de smartphones",
            "Trottinettes electriques", "Conversations en plusieurs langues">>,
          <<"Modern urban traffic", "Smartphone notifications",
            "Electric scooters", "Multilingual conversations">>,
          "Modern city ambiance with car traffic, smartphone notification sounds, electric scooter whirring, and multilingual street conversations")

Epoch1 ==
    Epoch(1, "Memoire recente", "Recent Memory", "1990-2010",
          "Legerement voile, teinte de nostalgie",
          "Slightly veiled, tinted with nostalgia",
          VisualParams(15, 50, 5, 10, 90, 95, 5),
          <<"Moteurs de voitures plus anciens", "Walkman et baladeurs CD",
            "Cabines telephoniques", "Sonneries de telephones fixes">>,
          <<"Older car engines", "Walkman and CD players", "Phone booths",
            "Landline phone ringtones">>,
          "1990s-2000s urban ambiance with older car engines, faint music from portable CD players, phone booth sounds, and rotary phone ringing in distance")

Epoch2 ==
    Epoch(2, "Generation precedente", "Previous Generation", "1960-1985",
          "Teintes dorees, grain de film argentique",
          "Golden tints, silver film grain",
          VisualParams(30, 100, 12, 20, 75, 90, 10),
          <<"Moteurs de 2CV et DS", "Postes de radio a transistors",
            "Accordeon dans les cafes", "Cloches d'eglises",
            "Marchands ambulants">>,
          <<"Citroen 2CV and DS engines", "Transistor radios",
            "Accordion in cafes", "Church bells", "Street vendors">>,
          "1960s-70s French atmosphere with vintage Citroen engines, transistor radio playing chanson francaise, distant accordion music, church bells, and street vendor calls")

Epoch3 ==
    Epoch(3, "L'entre-deux-guerres", "Interwar Period", "1920-1955",
          "Noir et blanc fantomatique, presences floues",
          "Ghostly black and white, blurred presences",
          VisualParams(50, 150, 20, 35, 50, 85, 20),
          <<"Sabots de chevaux sur paves", "Tramways electriques",
            "Reverberes a gaz qui gresillent", "Crieur de journaux",
            "Jazz lointain">>,
          <<"Horse hooves on cobblestones", "Electric tramways",
            "Gas street lamps hissing", "Newspaper criers",
            "Distant jazz music">>,
          "1920s-40s urban soundscape with horse hooves on cobblestones, electric tramway bells, gas lamp hissing, newspaper boy shouting headlines, and distant jazz from a cafe")

Epoch4 ==
    Epoch(4, "La Belle Epoque", "Belle Epoque", "1880-1914",
          "Sepia prononce, silhouettes en crinolines",
          "Pronounced sepia, silhouettes in crinolines",
          VisualParams(70, 200, 25, 45, 30, 80, 30),
          <<"Caleches et fiacres", "Crieurs des rues", "Cafe-concerts",
            "Orgues de Barbarie", "Fontaines publiques">>,
          <<"Horse-drawn carriages", "Street criers", "Cafe-concerts",
            "Barrel organs", "Public fountains">>,
          "1880s-1900s Belle Epoque ambiance with horse carriages, street vendors singing their wares, distant cafe-concert music, barrel organ melody, and fountain splashing")

Epoch5 ==
    Epoch(5, "Le XIXe siecle", "19th Century", "1820-1870",
          "Image de daguerreotype, dissolution des formes",
          "Daguerreotype image, dissolving forms",
          VisualParams(85, 300, 35, 60, 15, 70, 45),
          <<"Travaux haussmanniens", "Forgerons et marechaux-ferrants",
            "Cloches multiples", "Chants de travailleurs",
            "Vent dans les ruelles">>,
          <<"Haussmann construction work", "Blacksmiths and farriers",
            "Multiple church bells", "Workers' songs", "Wind in alleyways">>,
          "Mid-1800s soundscape with distant construction hammering, blacksmith anvil strikes, overlapping church bells, workers singing, and wind whistling through narrow streets")

Epoch6 ==
    Epoch(6, "Les temps anciens", "Ancient Times", "Avant 1820",
          "Presque invisible, aux limites de la perception",
          "Almost invisible, at the limits of perception",
          VisualParams(95, 500, 50, 75, 5, 50, 70),
          <<"Cloches medievales lointaines", "Marches anciens",
            "Vent dans les pierres", "Murmures indistincts",
            "Silence profond">>,
          <<"Distant medieval bells", "Ancient markets", "Wind through stones",
            "Indistinct murmurs", "Deep silence">>,
          "Pre-1820 ancient atmosphere with very distant medieval church bells, faint market murmurs, wind through old stone buildings, indistinct whispered voices, and profound silence between sounds")

\* the table with the last entry carrying its neighbour's level
EpochTableMislabelled ==
    (0 :> Epoch0) @@ (1 :> Epoch1) @@ (2 :> Epoch2) @@ (3 :> Epoch3) @@
    (4 :> Epoch4) @@ (5 :> Epoch5) @@ (6 :> [Epoch6 EXCEPT !.level = 5])

\* EPOCHS: Dict[int, Epoch], as the module defines it at import
EpochTable ==
    (0 :> Epoch0) @@ (1 :> Epoch1) @@ (2 :> Epoch2) @@ (3 :> Epoch3) @@
    (4 :> Epoch4) @@ (5 :> Epoch5) @@ (6 :> Epoch6)

\* ---------------------------------------------------------------- levels
\* A level argument: a Python int (float = FALSE, a whole number) or a Python
\* float (float = TRUE); its value is num / Unit.
IntLevel(k) == [float |-> FALSE, num |-> k * Unit]
FloatLevel(n) == [float |-> TRUE, num |-> n]

\* levels far outside the table, as whole numbers
FarLevels == {-5, 99, 100}

WholeLevels == ((0 - LevelSpan)..(6 + LevelSpan)) \cup FarLevels

Levels ==
    {IntLevel(k) : k \in WholeLevels}
    \cup {FloatLevel(n) : n \in ((0 - LevelSpan) * Unit)..((6 + LevelSpan) * Unit)}
    \cup {FloatLevel(k * Unit) : k \in FarLevels}

IsWhole(level) == level.num % Unit = 0

Min(a, b) == IF a <= b THEN a ELSE b
Max(a, b) == IF a >= b THEN a ELSE b

\* Outcome of a call: the value returned, or the exception raised, together
\* with the table keys the call subscripted (EPOCHS[k]).
Return(v, keys) == [exc |-> "", val |-> <<v>>, reads |-> keys]
Raise(e, keys) == [exc |-> e, val |-> <<>>, reads |-> keys]

\* dict.get with a key that is looked up by truncation (a lookup that rounds)
DictGetTruncated(d, level) ==
    LET k == level.num \div Unit
    IN IF k \in DOMAIN d THEN Some(d[k]) ELSE None

\* dict.get(key): an int key and a float key are the same key exactly when
\* they are numerically equal (3.0 == 3 and hash(3.0) == hash(3)); a missing
\* key gives None.
DictGet(d, level) ==
    IF IsWhole(level) /\ (level.num \div Unit) \in DOMAIN d
    THEN Some(d[level.num \div Unit])
    ELSE None

get_epoch_by_level(table, level) == Return(DictGet(table, level), {})

get_epoch_params(table, level) ==
    LET epoch == DictGet(table, level)
    IN Return(IF epoch # None THEN Some(epoch[1].visual) ELSE None, {})

\* int(x) of a number num/Unit: truncation toward zero
PyInt(num) == IF num >= 0 THEN num \div Unit ELSE 0 - ((0 - num) \div Unit)

\* no clamping at all
ClampLevelMissing(num) == num

\* level = max(0, min(6, level)), on numerators over Unit
ClampLevel(num) == Max(0, Min(6 * Unit, num))

\* upper = lower + 1, the cap forgotten
UpperIndexUncapped(lower) == lower + 1

\* upper = min(lower + 1, 6)
UpperIndex(lower) == Min(lower + 1, 6)

\* a blend that runs three times as fast, past the upper entry
lerpOvershoot(a, b, t) == a + ((b - a) * t * 3) \div Unit

\* the blend taken from the wrong end
lerpReversed(a, b, t) == b + ((a - b) * t) \div Unit

\* lerp(a, b, t) = a + (b - a) * t, with t a numerator over Unit; a and b are
\* table values (multiples of Unit), so the division is exact.
lerp(a, b, t) == a + ((b - a) * t) \div Unit

interpolate_epochs(table, level) ==
    LET lv == ClampLevel(level.num)
        lower == PyInt(lv)
        upper == UpperIndex(lower)
        t == lv - lower * Unit
    IN IF lower \notin DOMAIN table THEN Raise("KeyError", {lower})
       ELSE IF upper \notin DOMAIN table THEN Raise("KeyError", {lower, upper})
       ELSE LET p1 == table[lower].visual
                p2 == table[upper].visual
            IN Return([sepia |-> lerp(p1.sepia, p2.sepia, t),
                       blur |-> lerp(p1.blur, p2.blur, t),
                       noise |-> lerp(p1.noise, p2.noise, t),
                       vignette |-> lerp(p1.vignette, p2.vignette, t),
                       saturation |-> lerp(p1.saturation, p2.saturation, t),
                       contrast |-> lerp(p1.contrast, p2.contrast, t),
                       fade |-> lerp(p1.fade, p2.fade, t)],
                      {lower, upper})

\* ---------------------------------------------------------------- images
\* A PIL image object: its mode, its size <<width, height>> and its pixels in
\* row-major order, each pixel the tuple of its channel values (0..255).
Bands(mode) == IF mode = "L" THEN 1 ELSE IF mode = "RGB" THEN 3 ELSE 4

\* Image.new(mode, size, colour) when step = 0; with step > 0 the pixels
\* differ.  px holds the rows of the image, each a sequence of pixels; the
\* pixel of row r and column c (from 1) has the index (r - 1) * width + c.
MakeImage(mode, size, colour, step) ==
    [mode |-> mode, size |-> size,
     px |-> [r \in 1..size[2] |->
                [c \in 1..size[1] |->
                    [b \in 1..Bands(mode) |->
                        (colour[b] + step * ((r - 1) * size[1] + c - 1)) % 256]]]]

\* the pixel of index i
Pixel(img, i) ==
    img.px[((i - 1) \div img.size[1]) + 1][((i - 1) % img.size[1]) + 1]

\* the images a caller passes
Images ==
    {MakeImage("L", <<2, 3>>, <<128>>, 0),
     MakeImage("L", <<3, 3>>, <<10>>, 37),
     MakeImage("RGBA", <<1, 1>>, <<255, 0, 0, 128>>, 0),
     MakeImage("RGB", <<3, 3>>, <<0, 0, 255>>, 0),
     MakeImage("RGB", <<3, 3>>, <<200, 120, 40>>, 37),
     MakeImage("RGB", <<2, 3>>, <<60, 200, 90>>, 53)}

\* a conversion to uint8 that wraps modulo 256 instead of clamping
ClipWrapped(x) == x % 256

\* np.clip(x, 0, 255).astype(np.uint8), and the clipping of Image.blend
Clip(x) == Max(0, Min(255, x))

\* the sum of a sequence, by halves
RECURSIVE SumSeq(_)
SumSeq(q) ==
    IF Len(q) = 0 THEN 0
    ELSE IF Len(q) = 1 THEN q[1]
    ELSE LET m == Len(q) \div 2
         IN SumSeq(SubSeq(q, 1, m)) + SumSeq(SubSeq(q, m + 1, Len(q)))

\* Image.convert('RGB'): gray is replicated on the three channels, an alpha
\* channel is dropped
ConvertRGB(img) ==
    [mode |-> "RGB", size |-> img.size,
     px |-> [r \in 1..Len(img.px) |->
                [c \in 1..Len(img.px[r]) |->
                    IF img.mode = "L"
                    THEN <<img.px[r][c][1], img.px[r][c][1], img.px[r][c][1]>>
                    ELSE <<img.px[r][c][1], img.px[r][c][2], img.px[r][c][3]>>]]]

\* ITU-R 601-2 luma, as Image.convert('L') computes it
Luma(p) == (299 * p[1] + 587 * p[2] + 114 * p[3] + 500) \div 1000

\* Image.blend(degenerate, image, factor) on one channel, factor = f / Scale:
\* the value computed, and the value stored
BlendValue(deg, v, f) == (deg * (Scale - f) + v * f) \div Scale
Blend(deg, v, f) == Clip(BlendValue(deg, v, f))

\* _apply_blur: ImageFilter.GaussianBlur(radius).  The library's kernel is
\* abstracted to one 3x3 box average with the edges replicated.
_apply_blur(img, radius) ==
    LET w == img.size[1]
        h == img.size[2]
        At(r, c) == img.px[Max(0, Min(h - 1, r)) + 1][Max(0, Min(w - 1, c)) + 1]
        Box(i, ch) ==
            LET r == (i - 1) \div w
                c == (i - 1) % w
            IN SumSeq([k \in 1..9 |->
                         At(r + ((k - 1) \div 3) - 1, c + ((k - 1) % 3) - 1)[ch]])
               \div 9
    IN [img EXCEPT !.px =
            [r \in 1..Len(img.px) |->
                [c \in 1..Len(img.px[r]) |->
                    [ch \in 1..3 |-> Box((r - 1) * w + c, ch)]]]]

\* sepia_matrix, in thousandths
sepia_matrix ==
    <<<<393, 769, 189>>, <<349, 686, 168>>, <<272, 534, 131>>>>

\* line 117: clip(img @ M.T, 0, 255), in thousandths
SepiaTone(p, ch) ==
    Min(255000, Max(0, sepia_matrix[ch][1] * p[1]
                       + sepia_matrix[ch][2] * p[2]
                       + sepia_matrix[ch][3] * p[3]))

\* line 120: img * (1 - intensity) + sepia_img * intensity
SepiaValue(p, ch, intensity) ==
    (p[ch] * 1000 * (Scale - intensity) + SepiaTone(p, ch) * intensity)
    \div (1000 * Scale)

\* _apply_sepia: clip(img @ M.T), blended with the original by intensity
_apply_sepia(img, intensity) ==
    LET One(i, p) == [ch \in 1..3 |-> Clip(SepiaValue(p, ch, intensity))]
    IN [img EXCEPT !.px =
            [r \in 1..Len(img.px) |->
                [c \in 1..Len(img.px[r]) |->
                    One((r - 1) * img.size[1] + c, img.px[r][c])]]]

\* _apply_saturation: ImageEnhance.Color(image).enhance(factor)
_apply_saturation(img, factor) ==
    LET One(i, p) == [ch \in 1..3 |-> Blend(Luma(p), p[ch], factor)]
    IN [img EXCEPT !.px =
            [r \in 1..Len(img.px) |->
                [c \in 1..Len(img.px[r]) |->
                    One((r - 1) * img.size[1] + c, img.px[r][c])]]]

\* _apply_contrast: ImageEnhance.Contrast(image).enhance(factor); the
\* degenerate image is the solid gray int(mean luma + 0.5)
_apply_contrast(img, factor) ==
    LET n == img.size[1] * img.size[2]
        total == SumSeq([r \in 1..Len(img.px) |->
                            SumSeq([c \in 1..Len(img.px[r]) |->
                                        Luma(img.px[r][c])])])
        mean == (2 * total + n) \div (2 * n)
        One(i, p) == [ch \in 1..3 |-> Blend(mean, p[ch], factor)]
    IN [img EXCEPT !.px =
            [r \in 1..Len(img.px) |->
                [c \in 1..Len(img.px[r]) |->
                    One((r - 1) * img.size[1] + c, img.px[r][c])]]]

\* The draws of np.random.normal(0, 1) for one image: pixel i, channel ch.
\* in standard deviations: all zero, all +2, -1..1 in turn, and -2 for the
\* odd pixels with +2 for the even ones.
NoisePatterns == {"zero", "plus", "mixed", "tails"}
Sample(pattern, i, ch) ==
    IF pattern = "zero" THEN 0
    ELSE IF pattern = "plus" THEN 2
    ELSE IF pattern = "mixed" THEN ((i + ch) % 3) - 1
    ELSE IF i % 2 = 0 THEN 2 ELSE 0 - 2

\* line 137: img_array + noise, the draw given in standard deviations
NoiseValue(v, sample, intensity) == (v * Scale + sample * 50 * intensity) \div Scale

\* _apply_noise: img + normal(0, intensity * 50), clipped
_apply_noise(img, intensity, pattern) ==
    LET One(i, p) ==
            [ch \in 1..3 |->
                Clip(NoiseValue(p[ch], Sample(pattern, i, ch), intensity))]
    IN [img EXCEPT !.px =
            [r \in 1..Len(img.px) |->
                [c \in 1..Len(img.px[r]) |->
                    One((r - 1) * img.size[1] + c, img.px[r][c])]]]

\* np.linspace(-1, 1, count)[j], j from 0, as <<numerator, denominator>>
Linspace(j, count) ==
    IF count = 1 THEN <<0 - 1, 1>> ELSE <<2 * j - (count - 1), count - 1>>

\* distances are kept to 1/Precision
Precision == 100
ISqrt(v) == CHOOSE k \in 0..(2 * Precision) : k * k <= v /\ v < (k + 1) * (k + 1)

\* a vignette that darkens every pixel as much as one at distance 1
_apply_vignetteFlat(img, intensity) ==
    LET Mask(i) ==
            Max(0, Min(Precision * Scale,
                       Precision * Scale - Precision * intensity))
        One(i, p) ==
            [ch \in 1..3 |-> Clip((p[ch] * Mask(i)) \div (Precision * Scale))]
    IN [img EXCEPT !.px =
            [r \in 1..Len(img.px) |->
                [c \in 1..Len(img.px[r]) |->
                    One((r - 1) * img.size[1] + c, img.px[r][c])]]]

\* _apply_vignette: mask = clip(1 - distance * intensity, 0, 1)
_apply_vignette(img, intensity) ==
    LET w == img.size[1]
        h == img.size[2]
        Distance(i) ==
            LET x == Linspace((i - 1) % w, w)
                y == Linspace((i - 1) \div w, h)
            IN ISqrt((Precision * Precision * x[1] * x[1]) \div (x[2] * x[2])
                     + (Precision * Precision * y[1] * y[1]) \div (y[2] * y[2]))
        Mask(i) ==
            Max(0, Min(Precision * Scale,
                       Precision * Scale - Distance(i) * intensity))
        One(i, p) ==
            [ch \in 1..3 |-> Clip((p[ch] * Mask(i)) \div (Precision * Scale))]
    IN [img EXCEPT !.px =
            [r \in 1..Len(img.px) |->
                [c \in 1..Len(img.px[r]) |->
                    One((r - 1) * img.size[1] + c, img.px[r][c])]]]

fog_color == <<245, 240, 230>>

\* line 186: img_array * (1 - intensity) + fog_color * intensity
FadeValue(v, ch, intensity) ==
    (v * (Scale - intensity) + fog_color[ch] * intensity) \div Scale

\* _apply_fade: blend toward fog_color by intensity
_apply_fade(img, intensity) ==
    LET One(i, p) == [ch \in 1..3 |-> Clip(FadeValue(p[ch], ch, intensity))]
    IN [img EXCEPT !.px =
            [r \in 1..Len(img.px) |->
                [c \in 1..Len(img.px[r]) |->
                    One((r - 1) * img.size[1] + c, img.px[r][c])]]]

\* ------------------------------------------------- processors/sound.py
\* A Python number: an int (float = FALSE) or a float, of value num / Unit.
Number(float, num) == [float |-> float, num |-> num]

\* min(a, b) and max(a, b) of Python return the first argument on a tie, and
\* the argument itself, int or float as it is
PyMin(a, b) == IF b.num < a.num THEN b ELSE a
PyMax(a, b) == IF b.num > a.num THEN b ELSE a

\* self.language as callers construct the generator; any string other than
\* "fr" takes the English branches
Languages == {"fr", "en", "de"}

\* no floor under intensity and clarity
TenthUnfloored == 0 - Scale

\* intensity and clarity are numerators over Scale; 0.1 is Scale / 10
Tenth == Scale \div 10

Soundscape(epoch_level, epoch_name, period, elements, audio_prompt, intensity, clarity) ==
    [epoch_level |-> epoch_level, epoch_name |-> epoch_name,
     period |-> period, elements |-> elements, audio_prompt |-> audio_prompt,
     intensity |-> intensity, clarity |-> clarity]

\* the quality modifier of the level
Quality(level) ==
    IF level.num = 0
    THEN "crystal clear, high fidelity, present-day"
    ELSE IF level.num <= 2 * Unit
    THEN "slightly muffled, warm analog quality, nostalgic"
    ELSE IF level.num <= 4 * Unit
    THEN "distant, echoing, as if through old walls, ghostly"
    ELSE "barely audible whispers, dreamlike, fragmentary, ancient"

\* reverb without its cap
ReverbUncapped(level) == Number(level.float, level.num * 15)

\* reverb = min(level * 15, 80)
Reverb(level) ==
    PyMin(Number(level.float, level.num * 15), Number(FALSE, 80 * Unit))

\* lowpass = max(20000 - (level * 3000), 2000)
Lowpass(level) ==
    PyMax(Number(level.float, 20000 * Unit - level.num * 3000),
          Number(FALSE, 2000 * Unit))

\* The enhanced prompt, by the parts of its f-string in their order:
\*   "{base_prompt}. Audio quality: {quality}. Processing: reverb {reverb}%,
\*    low-pass filter at {lowpass}Hz, slight tape hiss and analog warmth."
\* A number is printed as Python prints it: a float keeps its fraction.
_enhance_prompt(base_prompt, level) ==
    [base_prompt |-> base_prompt,
     quality_label |-> ". Audio quality: ",
     quality |-> Quality(level),
     reverb_label |-> ". Processing: reverb ",
     reverb |-> Reverb(level),
     lowpass_label |-> "%, low-pass filter at ",
     lowpass |-> Lowpass(level),
     tail |-> "Hz, slight tape hiss and analog warmth."]

\* generate with intensity and clarity derived from the level of the epoch
\* that was found, not from the level that was passed
generateFromEpoch(table, language, level) ==
    LET got == DictGet(table, level)
        epoch == IF got = None THEN table[0] ELSE got[1]
        intensity == Scale - (epoch.level * Unit * 12)
        clarity == Scale - (epoch.level * Unit * 15)
        elements == IF language = "fr"
                    THEN epoch.soundscape
                    ELSE epoch.soundscape_en
    IN Soundscape(epoch.level,
                  IF language = "fr" THEN epoch.name ELSE epoch.name_en,
                  epoch.period,
                  elements,
                  _enhance_prompt(epoch.audio_prompt, level),
                  Max(Tenth, intensity),
                  Max(Tenth, clarity))

\* generate(self, temporal_level)
generate(table, language, level) ==
    LET got == DictGet(table, level)
        epoch == IF got = None THEN table[0] ELSE got[1]
        intensity == Scale - (level.num * 12)
        clarity == Scale - (level.num * 15)
        elements == IF language = "fr"
                    THEN epoch.soundscape
                    ELSE epoch.soundscape_en
    IN Soundscape(epoch.level,
                  IF language = "fr" THEN epoch.name ELSE epoch.name_en,
                  epoch.period,
                  elements,
                  _enhance_prompt(epoch.audio_prompt, level),
                  Max(Tenth, intensity),
                  Max(Tenth, clarity))

\* '{x:.0%}' of a numerator over Scale: the nearest whole percent
Percent(n) == (2 * n + Unit) \div (2 * Unit)

\* int(x * 10) of a numerator over Scale
Bars(n) == n \div Tenth

\* a description whose labels are English whatever the language
get_descriptionEnglishLabels(table, language, level) ==
    LET soundscape == generate(table, language, level)
    IN [header |-> <<"Soundscape", soundscape.epoch_name, soundscape.period>>,
        elements_header |-> "Sound elements:",
        elements_list |-> soundscape.elements,
        intensity_label |-> "Intensity",
        intensity_bars |-> Bars(soundscape.intensity),
        intensity_percent |-> Percent(soundscape.intensity),
        clarity_label |-> "Clarity",
        clarity_bars |-> Bars(soundscape.clarity),
        clarity_percent |-> Percent(soundscape.clarity)]

\* get_description(self, temporal_level): the text, by its parts
get_description(table, language, level) ==
    LET soundscape == generate(table, language, level)
        french == language = "fr"
    IN [header |-> <<IF french THEN "Paysage sonore" ELSE "Soundscape",
                     soundscape.epoch_name, soundscape.period>>,
        elements_header |-> IF french
                            THEN "Elements sonores:"
                            ELSE "Sound elements:",
        elements_list |-> soundscape.elements,
        intensity_label |-> IF french THEN "Intensite" ELSE "Intensity",
        intensity_bars |-> Bars(soundscape.intensity),
        intensity_percent |-> Percent(soundscape.intensity),
        clarity_label |-> IF french THEN "Clarte" ELSE "Clarity",
        clarity_bars |-> Bars(soundscape.clarity),
        clarity_percent |-> Percent(soundscape.clarity)]

\* get_all_soundscapes(self): generate(level) for level in range(7)
get_all_soundscapes(table, language) ==
    [i \in 1..7 |-> generate(table, language, IntLevel(i - 1))]

\* the dictionary under the field names the external format documents
to_dictRenamed(table, language, level) ==
    LET soundscape == generate(table, language, level)
    IN [level |-> soundscape.epoch_level,
        name |-> soundscape.epoch_name,
        period |-> soundscape.period,
        elements |-> soundscape.elements,
        prompt |-> soundscape.audio_prompt,
        intensity |-> soundscape.intensity,
        clarity |-> soundscape.clarity]

\* to_dict(self, temporal_level): a dict, i.e. a function on its keys
to_dict(table, language, level) ==
    LET soundscape == generate(table, language, level)
    IN [epoch_level |-> soundscape.epoch_level,
        epoch_name |-> soundscape.epoch_name,
        period |-> soundscape.period,
        elements |-> soundscape.elements,
        audio_prompt |-> soundscape.audio_prompt,
        intensity |-> soundscape.intensity,
        clarity |-> soundscape.clarity]

\* ----------------------------------------------------------------- state
VARIABLES
    EPOCHS,          \* the epoch table of epochs.py
    call,            \* the epochs.py call last made: <<>> or <<[op, level]>>
    ret,             \* its outcome: <<>> or <<Return(..) / Raise(..)>>
    pc,              \* position of the running process() call, or "idle"
    given,           \* the caller's image as it was passed: <<>> or <<img>>
    temporal_level,  \* process() argument: <<>> or <<level>>
    params,          \* process() argument / local: None or Some(VisualParams)
    image,           \* process() local `image`: an object id (0: unbound)
    result,          \* process() local `result`, then the value returned
    heap,            \* the image objects alive, by id; heap[1] is the caller's
    log,             \* the conversions and stages the call has executed
    passed,          \* process() argument `params` as the caller passed it
    drawn,           \* the draws np.random.normal made: <<>> or <<pattern>>
    first,           \* of the caller's earlier call: <<>> or
                     \* <<[image, drawn, level]>>, what it returned, the noise
                     \* it drew and the level it was given
    language,        \* self.language of the SoundscapeGenerator called
    _cache,          \* self._cache of the TemporalVisualProcessor
    rng              \* the generator of numpy.random: None or Some(state)

vars == <<EPOCHS, call, ret, pc, given, temporal_level, params, image, result,
          heap, log, passed, drawn, first, language, _cache, rng>>

epochsLocals == <<call, ret>>
processLocals ==
    <<pc, given, temporal_level, params, image, result, heap, log, passed,
      drawn, first>>

\* VisualParams a caller may pass, inside and outside the documented domains
FieldValues == {0 - (Scale \div 2), 0, Scale \div 2}
FactorValues == {Scale, (5 * Scale) \div 2}
CustomParams ==
    [sepia : FieldValues, blur : FieldValues, noise : FieldValues,
     vignette : FieldValues, saturation : FactorValues,
     contrast : FactorValues, fade : FieldValues]

Init ==
    /\ EPOCHS = EpochTable
    /\ call = <<>>
    /\ ret = <<>>
    /\ pc = "idle"
    /\ given = <<>>
    /\ temporal_level = <<>>
    /\ params = None
    /\ image = 0
    /\ result = 0
    /\ heap = <<>>
    /\ log = <<>>
    /\ passed = None
    /\ drawn = <<>>
    /\ first = <<>>
    /\ language = <<>>
    /\ _cache = <<>>
    /\ rng = None

ProcessIdle ==
    /\ pc' = "idle"
    /\ given' = <<>>
    /\ temporal_level' = <<>>
    /\ params' = None
    /\ image' = 0
    /\ result' = 0
    /\ heap' = <<>>
    /\ log' = <<>>
    /\ passed' = None
    /\ drawn' = <<>>
    /\ first' = <<>>

\* ------------------------------------------------- calls of epochs.py
Idle == pc = "idle" /\ call = <<>>

CallEpochs(op, level, outcome) ==
    /\ call' = <<[op |-> op, level |-> level]>>
    /\ ret' = <<outcome>>
    /\ UNCHANGED processLocals
    /\ UNCHANGED <<EPOCHS, language, _cache, rng>>

GetEpochByLevel ==
    /\ Idle
    /\ \E level \in Levels :
        CallEpochs("get_epoch_by_level", level, get_epoch_by_level(EPOCHS, level))

GetEpochParams ==
    /\ Idle
    /\ \E level \in Levels :
        CallEpochs("get_epoch_params", level, get_epoch_params(EPOCHS, level))

InterpolateEpochs ==
    /\ Idle
    /\ \E level \in Levels :
        CallEpochs("interpolate_epochs", level, interpolate_epochs(EPOCHS, level))

\* list_epochs() and list_epochs_en(): one line per entry, in the order of
\* the table, by its parts "{level}. {name} ({period})"
list_epochs(table) ==
    [i \in 1..Cardinality(DOMAIN table) |->
        <<table[i - 1].level, table[i - 1].name, table[i - 1].period>>]
list_epochs_en(table) ==
    [i \in 1..Cardinality(DOMAIN table) |->
        <<table[i - 1].level, table[i - 1].name_en, table[i - 1].period>>]

ListEpochs ==
    /\ Idle
    /\ \/ CallEpochs("list_epochs", None, Return(list_epochs(EPOCHS), {}))
       \/ CallEpochs("list_epochs_en", None, Return(list_epochs_en(EPOCHS), {}))

\* ------------------------------------- calls of processors/sound.py
\* a method of a SoundscapeGenerator constructed with language lang
CallSound(op, lang, level, value) ==
    /\ language' = <<lang>>
    /\ call' = <<[op |-> op, level |-> level]>>
    /\ ret' = <<Return(value, {})>>
    /\ UNCHANGED processLocals
    /\ UNCHANGED <<EPOCHS, _cache, rng>>

Generate ==
    /\ Idle
    /\ \E lang \in Languages, level \in Levels :
        CallSound("generate", lang, level, generate(EPOCHS, lang, level))

GetDescription ==
    /\ Idle
    /\ \E lang \in Languages, level \in Levels :
        CallSound("get_description", lang, level,
                  get_description(EPOCHS, lang, level))

GetAllSoundscapes ==
    /\ Idle
    /\ \E lang \in Languages :
        CallSound("get_all_soundscapes", lang, None,
                  get_all_soundscapes(EPOCHS, lang))

ToDict ==
    /\ Idle
    /\ \E lang \in Languages, level \in Levels :
        CallSound("to_dict", lang, level, to_dict(EPOCHS, lang, level))

\* ------------------------------- TemporalVisualProcessor.process, by step
\* a new image object, the buffer of the caller's image reused for it
NewImageAliased(h) == 1

\* the id of a new image object
NewImage(h) == Len(h) + 1

Store(h, id, img) ==
    IF id > Len(h) THEN Append(h, img) ELSE [h EXCEPT ![id] = img]

\* process(image, temporal_level, params): the call is entered
\* the levels passed along with custom parameters: one in the table, one not
CustomLevels == {IntLevel(3), IntLevel(7)}

ProcessArguments ==
    {[level |-> l, params |-> None] : l \in Levels}
    \cup {[level |-> l, params |-> Some(p)] : l \in CustomLevels, p \in CustomParams}

\* the frame of process(img, level, p) at its first statement
Enter(img, level, p) ==
    /\ pc' = "params"
    /\ given' = <<img>>
    /\ temporal_level' = <<level>>
    /\ params' = p
    /\ heap' = <<img>>
    /\ image' = 1
    /\ result' = 0
    /\ log' = <<>>
    /\ passed' = p
    /\ drawn' = <<>>

Process ==
    /\ Idle
    /\ \E img \in Images, a \in ProcessArguments :
        /\ Enter(img, a.level, a.params)
        /\ first' = <<>>
        /\ UNCHANGED <<EPOCHS, call, ret, language, _cache, rng>>

\* lines 57-61: the parameters of the level, when none were passed
ResolveLevel(table, level) ==
    IF level.float /\ ~IsWhole(level)
    THEN interpolate_epochs(table, level)
    ELSE LET got == get_epoch_params(table, IntLevel(PyInt(level.num)))
         IN [got EXCEPT !.val = got.val[1]]

\* the level consulted although parameters were passed: a level of the table
\* replaces them
GetParametersByLevel ==
    /\ pc = "params"
    /\ LET got == IF params = None \/ DictGet(EPOCHS, temporal_level[1]) # None
                  THEN ResolveLevel(EPOCHS, temporal_level[1])
                  ELSE Return(params[1], {})
       IN IF got.exc # ""
          THEN /\ pc' = "raised"
               /\ UNCHANGED <<params, result>>
          ELSE IF got.val = None
          THEN /\ pc' = "done"
               /\ result' = image
               /\ UNCHANGED params
          ELSE /\ pc' = "mode"
               /\ params' = got.val
               /\ UNCHANGED result
    /\ UNCHANGED <<EPOCHS, call, ret, given, temporal_level, image, heap, log>>
    /\ UNCHANGED <<passed, drawn, first, language, _cache, rng>>

\* lines 57-64
GetParameters ==
    /\ pc = "params"
    /\ LET got == IF params = None
                  THEN ResolveLevel(EPOCHS, temporal_level[1])
                  ELSE Return(params[1], {})
       IN IF got.exc # ""
          THEN /\ pc' = "raised"
               /\ UNCHANGED <<params, result>>
          ELSE IF got.val = None
          THEN /\ pc' = "done"
               /\ result' = image
               /\ UNCHANGED params
          ELSE /\ pc' = "mode"
               /\ params' = got.val
               /\ UNCHANGED result
    /\ UNCHANGED <<EPOCHS, call, ret, given, temporal_level, image, heap, log>>
    /\ UNCHANGED <<passed, drawn, first, language, _cache, rng>>

\* the stages in another order: sepia before blur
AfterSwapped(step) ==
    CASE step = "mode" -> "copy"
      [] step = "copy" -> "sepia"
      [] step = "sepia" -> "blur"
      [] step = "blur" -> "saturation"
      [] step = "saturation" -> "contrast"
      [] step = "contrast" -> "noise"
      [] step = "noise" -> "vignette"
      [] step = "vignette" -> "fade"
      [] step = "fade" -> "done"

\* lines 66-101: the statement that follows each statement of process()
After(step) ==
    CASE step = "mode" -> "copy"
      [] step = "copy" -> "blur"
      [] step = "blur" -> "sepia"
      [] step = "sepia" -> "saturation"
      [] step = "saturation" -> "contrast"
      [] step = "contrast" -> "noise"
      [] step = "noise" -> "vignette"
      [] step = "vignette" -> "fade"
      [] step = "fade" -> "done"

\* lines 67-68: if image.mode != 'RGB': image = image.convert('RGB')
EnsureRGB ==
    /\ pc = "mode"
    /\ pc' = After("mode")
    /\ IF heap[image].mode # "RGB"
       THEN LET id == NewImage(heap)
            IN /\ heap' = Store(heap, id, ConvertRGB(heap[image]))
               /\ image' = id
               /\ log' = Append(log, "convert")
       ELSE UNCHANGED <<heap, image, log>>
    /\ UNCHANGED <<EPOCHS, call, ret, given, temporal_level, params, result>>
    /\ UNCHANGED <<passed, drawn, first, language, _cache, rng>>

\* line 71: result = image.copy()
CopyImage ==
    /\ pc = "copy"
    /\ pc' = After("copy")
    /\ LET id == NewImage(heap)
       IN /\ heap' = Store(heap, id, heap[image])
          /\ result' = id
    /\ UNCHANGED <<EPOCHS, call, ret, given, temporal_level, params, image, log>>
    /\ UNCHANGED <<passed, drawn, first, language, _cache, rng>>

\* result = self._apply_xxx(result, ...): the stage makes a new image object
RunStage(stage, img) ==
    LET id == NewImage(heap)
    IN /\ heap' = Store(heap, id, img)
       /\ result' = id
       /\ log' = Append(log, stage)

SkipStage == UNCHANGED <<heap, result, log>>

StageFrame ==
    UNCHANGED <<EPOCHS, call, ret, given, temporal_level, params, image,
                passed, first, language, _cache>>

\* guards that run a stage for every value but the neutral one
ShouldSepiaNonZero(p) == p.sepia # 0
ShouldNoiseNonZero(p) == p.noise # 0
ShouldFadeAlways(p) == p.fade >= 0

ShouldBlur(p) == p.blur > 0                    \* line 74
ShouldSepia(p) == p.sepia > 0                  \* line 78
ShouldSaturate(p) == p.saturation # Scale      \* line 82
ShouldContrast(p) == p.contrast # Scale        \* line 86
ShouldNoise(p) == p.noise > 0                  \* line 90
ShouldVignette(p) == p.vignette > 0            \* line 94
ShouldFade(p) == p.fade > 0                    \* line 98

\* lines 73-75
Blur ==
    /\ pc = "blur"
    /\ pc' = After("blur")
    /\ IF ShouldBlur(params[1])
       THEN RunStage("blur", _apply_blur(heap[result], params[1].blur))
       ELSE SkipStage
    /\ StageFrame
    /\ UNCHANGED <<drawn, rng>>

\* lines 77-79
Sepia ==
    /\ pc = "sepia"
    /\ pc' = After("sepia")
    /\ IF ShouldSepia(params[1])
       THEN RunStage("sepia", _apply_sepia(heap[result], params[1].sepia))
       ELSE SkipStage
    /\ StageFrame
    /\ UNCHANGED <<drawn, rng>>

\* lines 81-83
Saturation ==
    /\ pc = "saturation"
    /\ pc' = After("saturation")
    /\ IF ShouldSaturate(params[1])
       THEN RunStage("saturation",
                     _apply_saturation(heap[result], params[1].saturation))
       ELSE SkipStage
    /\ StageFrame
    /\ UNCHANGED <<drawn, rng>>

\* lines 85-87
Contrast ==
    /\ pc = "contrast"
    /\ pc' = After("contrast")
    /\ IF ShouldContrast(params[1])
       THEN RunStage("contrast",
                     _apply_contrast(heap[result], params[1].contrast))
       ELSE SkipStage
    /\ StageFrame
    /\ UNCHANGED <<drawn, rng>>

\* line 134: np.random.normal(0, scale, shape) raises ValueError for a
\* negative scale
NormalRaises(scale) == scale < 0

\* The generator of numpy.random is one object of the process, which
\* np.random.normal draws from and advances. While it runs from the entropy it
\* was seeded with at import its state is not known and any numbers can come
\* next (None); once the caller has called np.random.seed the state is known,
\* Some(n), and determines the numbers drawn.
\* A known state is the seed and the number of arrays drawn since; the
\* stream of a seed is the four patterns in turn, from the seed's own place.
Seeded(seed) == [seed |-> seed, drawn |-> 0]
DrawOf(g) ==
    <<"zero", "plus", "mixed", "tails">>[((g.seed + g.drawn) % Cardinality(NoisePatterns)) + 1]
Advance(g) == [g EXCEPT !.drawn = (@ + 1) % Cardinality(NoisePatterns)]

\* lines 89-91; line 134 draws from the generator and advances it
Noise ==
    /\ pc = "noise"
    /\ IF ShouldNoise(params[1])
       THEN IF NormalRaises(params[1].noise * 50)
            THEN /\ pc' = "raised"
                 /\ SkipStage
                 /\ UNCHANGED <<drawn, rng>>
            ELSE \E pattern \in IF rng = None THEN NoisePatterns
                                 ELSE {DrawOf(rng[1])} :
                    /\ rng' = IF rng = None THEN None ELSE Some(Advance(rng[1]))
                    /\ pc' = After("noise")
                    /\ RunStage("noise",
                                _apply_noise(heap[result], params[1].noise,
                                             pattern))
                    /\ drawn' = <<pattern>>
       ELSE /\ pc' = After("noise")
            /\ SkipStage
            /\ UNCHANGED <<drawn, rng>>
    /\ StageFrame

\* lines 93-95
Vignette ==
    /\ pc = "vignette"
    /\ pc' = After("vignette")
    /\ IF ShouldVignette(params[1])
       THEN RunStage("vignette",
                     _apply_vignette(heap[result], params[1].vignette))
       ELSE SkipStage
    /\ StageFrame
    /\ UNCHANGED <<drawn, rng>>

\* a fade stage that draws random numbers of its own
FadeDithered ==
    /\ pc = "fade"
    /\ pc' = After("fade")
    /\ IF ShouldFade(params[1])
       THEN \E pattern \in NoisePatterns :
                RunStage("fade",
                         _apply_noise(_apply_fade(heap[result], params[1].fade),
                                      params[1].fade, pattern))
       ELSE SkipStage
    /\ StageFrame
    /\ UNCHANGED <<drawn, rng>>

\* lines 97-101: the last stage, then return result
Fade ==
    /\ pc = "fade"
    /\ pc' = After("fade")
    /\ IF ShouldFade(params[1])
       THEN RunStage("fade", _apply_fade(heap[result], params[1].fade))
       ELSE SkipStage
    /\ StageFrame
    /\ UNCHANGED <<drawn, rng>>

\* the images with which a call is repeated: the square ones whose pixels
\* differ, one gray and one RGB
RepeatImages ==
    {img \in Images :
        /\ img.size[1] = img.size[2]
        /\ Pixel(img, 1) # Pixel(img, img.size[1] * img.size[2])}

\* process(img, level, params) with one of these images
ProcessTwice ==
    /\ Idle
    /\ \E img \in RepeatImages, a \in ProcessArguments :
        /\ Enter(img, a.level, a.params)
        /\ first' = <<>>
        /\ UNCHANGED <<EPOCHS, call, ret, language, _cache, rng>>

\* The caller calls process once more with the arguments of the call that has
\* just returned, keeping what that call returned and the noise it drew.
Again ==
    /\ pc = "done"
    /\ call = <<>>
    /\ first = <<>>
    /\ first' = <<[image |-> heap[result], drawn |-> drawn,
                   level |-> temporal_level[1]]>>
    /\ Enter(given[1], temporal_level[1], passed)
    /\ UNCHANGED <<EPOCHS, call, ret, language, _cache, rng>>

\* ------------------------------------------------ app.py: process_image
\* line 84: sound_generator = SoundscapeGenerator(language="fr")
AppLanguage == "fr"

\* line 105: EPOCHS.get(temporal_level, EPOCHS[0])
DictGetDefault(d, level, default) ==
    LET got == DictGet(d, level)
    IN IF got = None THEN default ELSE got[1]

\* '{x:.1f}' of a numerator over Scale: tenths, to the nearest
OneDecimal(n) == (2 * n + 10 * Unit) \div (20 * Unit)

\* lines 114-126: the epoch information text, by its parts
epoch_info(epoch) ==
    [name |-> epoch.name, period |-> epoch.period,
     description |-> epoch.description,
     sepia |-> Percent(epoch.visual.sepia),
     blur |-> OneDecimal(epoch.visual.blur),
     noise |-> Percent(epoch.visual.noise),
     vignette |-> Percent(epoch.visual.vignette),
     saturation |-> Percent(epoch.visual.saturation),
     fade |-> Percent(epoch.visual.fade)]

\* lines 101-108: no image gives (None, "", "") at once; otherwise the
\* handler calls visual_processor.process(image, temporal_level)
ProcessImage ==
    /\ Idle
    /\ \E level \in Levels :
        /\ call' = <<[op |-> "process_image", level |-> level]>>
        /\ \/ /\ ret' = <<Return([processed |-> None, epoch_info |-> "",
                                  soundscape |-> ""], {})>>
              /\ UNCHANGED <<processLocals, language>>
           \/ \E img \in Images :
                /\ Enter(img, level, None)
                /\ first' = <<>>
                /\ ret' = <<>>
                /\ language' = <<AppLanguage>>
        /\ UNCHANGED <<EPOCHS, _cache, rng>>

\* lines 105-128, after process has returned: the handler's three results
ProcessImageReturn ==
    /\ pc = "done"
    /\ call # <<>> /\ call[1].op = "process_image"
    /\ ret = <<>>
    /\ LET level == call[1].level
           epoch == DictGetDefault(EPOCHS, level, EPOCHS[0])
       IN ret' = <<Return([processed |-> Some(result),
                           epoch_info |-> epoch_info(epoch),
                           soundscape |->
                               get_description(EPOCHS, language[1], level)],
                          {})>>
    /\ UNCHANGED <<EPOCHS, call, language, _cache, rng>>
    /\ UNCHANGED processLocals

\* the call has returned (or raised) and the caller has dropped its locals
Finish ==
    /\ \/ pc = "raised"
       \/ pc = "done" /\ (call = <<>> \/ ret # <<>>)
       \/ pc = "idle" /\ call # <<>>
    /\ call' = <<>>
    /\ ret' = <<>>
    /\ ProcessIdle
    /\ language' = <<>>
    /\ UNCHANGED <<EPOCHS, _cache, rng>>

Next ==
    \/ GetEpochByLevel
    \/ GetEpochParams
    \/ InterpolateEpochs
    \/ Generate
    \/ GetDescription
    \/ GetAllSoundscapes
    \/ ToDict
    \/ ProcessImage
    \/ ProcessImageReturn
    \/ Process
    \/ GetParameters
    \/ EnsureRGB
    \/ CopyImage
    \/ Blur
    \/ Sepia
    \/ Saturation
    \/ Contrast
    \/ Noise
    \/ Vignette
    \/ Fade
    \/ Finish

Spec == Init /\ [][Next]_vars

\* ------------------------------------------------- the same call, twice
NextTwice ==
    \/ ProcessTwice
    \/ GetParameters
    \/ EnsureRGB
    \/ CopyImage
    \/ Blur
    \/ Sepia
    \/ Saturation
    \/ Contrast
    \/ Noise
    \/ Vignette
    \/ Fade
    \/ Again
    \/ Finish

SpecTwice == Init /\ [][NextTwice]_vars

\* ------------------------------- custom params, at one level and another
\* the levels of the second call: in the table, fractional, outside it
OtherLevels == {IntLevel(3), FloatLevel(HalfSteps), IntLevel(7)}

\* process(img, level, params) with params passed
ProcessCustom ==
    /\ Idle
    /\ \E img \in RepeatImages, l \in CustomLevels, p \in CustomParams :
        /\ Enter(img, l, Some(p))
        /\ first' = <<>>
        /\ UNCHANGED <<EPOCHS, call, ret, language, _cache, rng>>

\* The caller calls process once more with the same image and the same params
\* and another temporal_level.
AgainAtLevel ==
    /\ pc = "done"
    /\ call = <<>>
    /\ first = <<>>
    /\ passed # None
    /\ \E l \in OtherLevels :
        /\ l # temporal_level[1]
        /\ first' = <<[image |-> heap[result], drawn |-> drawn,
                       level |-> temporal_level[1]]>>
        /\ Enter(given[1], l, passed)
    /\ UNCHANGED <<EPOCHS, call, ret, language, _cache, rng>>

NextLevels ==
    \/ ProcessCustom
    \/ GetParameters
    \/ EnsureRGB
    \/ CopyImage
    \/ Blur
    \/ Sepia
    \/ Saturation
    \/ Contrast
    \/ Noise
    \/ Vignette
    \/ Fade
    \/ AgainAtLevel
    \/ Finish

SpecLevels == Init /\ [][NextLevels]_vars

\* --------------------------------- the library with a seeded generator
\* the seeds a caller gives np.random.seed
Seeds == {0, 1}

\* np.random.seed(seed), called by the caller between two library calls
Seed ==
    /\ Idle
    /\ \E seed \in Seeds : rng' = Some(Seeded(seed))
    /\ UNCHANGED <<EPOCHS, call, ret, language, _cache>>
    /\ UNCHANGED processLocals

\* process(img, level)
ProcessSeeded ==
    /\ Idle
    /\ \E img \in RepeatImages, level \in Levels :
        /\ Enter(img, level, None)
        /\ first' = <<>>
        /\ UNCHANGED <<EPOCHS, call, ret, language, _cache, rng>>

NextSeeded ==
    \/ Seed
    \/ GetEpochByLevel
    \/ GetEpochParams
    \/ InterpolateEpochs
    \/ ListEpochs
    \/ Generate
    \/ GetDescription
    \/ GetAllSoundscapes
    \/ ToDict
    \/ ProcessSeeded
    \/ GetParameters
    \/ EnsureRGB
    \/ CopyImage
    \/ Blur
    \/ Sepia
    \/ Saturation
    \/ Contrast
    \/ Noise
    \/ Vignette
    \/ Fade
    \/ Again
    \/ Finish

SpecSeeded == Init /\ [][NextSeeded]_vars

\* ------------------------------ parameters far outside their domains
\* VisualParams a caller may pass: intensities above 1, factors below 0
WideValues == {0, Scale \div 2, (5 * Scale) \div 2}
WideFactors == {0 - (Scale \div 2), Scale, (5 * Scale) \div 2}
WideParams ==
    [sepia : WideValues, blur : {0, Scale}, noise : WideValues,
     vignette : {0, (5 * Scale) \div 2}, saturation : WideFactors,
     contrast : WideFactors, fade : WideValues]

\* the 3x3 images: gray, uniform blue, and coloured
WideImages == {img \in Images : img.size = <<3, 3>>}

\* process(img, 3, params)
ProcessWide ==
    /\ Idle
    /\ \E img \in WideImages, p \in WideParams :
        /\ Enter(img, IntLevel(3), Some(p))
        /\ first' = <<>>
        /\ UNCHANGED <<EPOCHS, call, ret, language, _cache, rng>>

NextWide ==
    \/ ProcessWide
    \/ GetParameters
    \/ EnsureRGB
    \/ CopyImage
    \/ Blur
    \/ Sepia
    \/ Saturation
    \/ Contrast
    \/ Noise
    \/ Vignette
    \/ Fade
    \/ Finish

SpecWide == Init /\ [][NextWide]_vars

\* ------------------------------------------ the sample image of the tests
\* Image.new('RGB', (w, h), color='blue')
BlueImage(w, h) == MakeImage("RGB", <<w, h>>, <<0, 0, 255>>, 0)

\* the fixture sample_image: 100x100, blue
sample_image == BlueImage(100, 100)

\* the sample image at level 3 as the tests process it, and small blue
\* images at the levels of the table
BlueArguments ==
    {[image |-> sample_image, level |-> IntLevel(3)]}
    \cup {[image |-> BlueImage(s, s), level |-> IntLevel(k)] :
            s \in {2, 5}, k \in 0..6}

ProcessBlue ==
    /\ Idle
    /\ \E a \in BlueArguments :
        /\ Enter(a.image, a.level, None)
        /\ first' = <<>>
        /\ UNCHANGED <<EPOCHS, call, ret, language, _cache, rng>>

NextBlue ==
    \/ ProcessBlue
    \/ GetParameters
    \/ EnsureRGB
    \/ CopyImage
    \/ Blur
    \/ Sepia
    \/ Saturation
    \/ Contrast
    \/ Noise
    \/ Vignette
    \/ Fade
    \/ Finish

SpecBlue == Init /\ [][NextBlue]_vars

\* ------------------------------------------ callers that write what they get
\* how many table entries callers write to
MaxWrites == 1

Written == {k \in DOMAIN EPOCHS : EPOCHS[k] # EpochTable[k]}

\* The caller assigns to the object the call has just handed it. The Epoch of
\* get_epoch_by_level(k) is the object EPOCHS[k] (epochs.py 279), the
\* VisualParams of get_epoch_params(k) is the object EPOCHS[k].visual (line
\* 285), and Soundscape.elements is the list epoch.soundscape or
\* epoch.soundscape_en of the epoch generate resolved (sound.py 65-68, 74):
\* none is a copy, and the dataclasses are not frozen. The VisualParams of
\* interpolate_epochs is a new object, and a write to it reaches nothing.
CallerWrite ==
    /\ pc = "idle"
    /\ call # <<>> /\ ret # <<>>
    /\ Cardinality(Written) < MaxWrites
    /\ \/ /\ call[1].op = "get_epoch_by_level"
          /\ ret[1].val[1] # None
          /\ EPOCHS' = [EPOCHS EXCEPT
                            ![call[1].level.num \div Unit].name = "tampered"]
       \/ /\ call[1].op = "get_epoch_params"
          /\ ret[1].val[1] # None
          /\ EPOCHS' = [EPOCHS EXCEPT
                            ![call[1].level.num \div Unit].visual.noise = Scale]
       \/ /\ call[1].op = "generate"
          /\ LET k == ret[1].val[1].epoch_level
             IN IF language[1] = "fr"
                THEN EPOCHS' = [EPOCHS EXCEPT
                                    ![k].soundscape = Append(@, "tampered")]
                ELSE EPOCHS' = [EPOCHS EXCEPT
                                    ![k].soundscape_en = Append(@, "tampered")]
    /\ call' = <<>>
    /\ ret' = <<>>
    /\ language' = <<>>
    /\ UNCHANGED processLocals
    /\ UNCHANGED <<_cache, rng>>

NextWrites ==
    \/ GetEpochByLevel
    \/ GetEpochParams
    \/ InterpolateEpochs
    \/ Generate
    \/ CallerWrite
    \/ Finish

SpecWrites == Init /\ [][NextWrites]_vars

\* ================================================================ claims
Called(op) == call # <<>> /\ call[1].op = op
Finished == pc = "done"
InLog(stage) == \E i \in 1..Len(log) : log[i] = stage
FieldNames ==
    {"sepia", "blur", "noise", "vignette", "saturation", "contrast", "fade"}

\* C1: get_epoch_by_level and get_epoch_params return the entry whose level
\* field equals the requested level for the whole levels 0..6, and None,
\* without raising and without clamping, for every other level (-1, 7, 99,
\* 3.5, ...).
C1_LookupExactOrNone ==
    (Called("get_epoch_by_level") \/ Called("get_epoch_params")) =>
        LET lv == call[1].level
            out == ret[1]
            inTable == \E k \in 0..6 : lv.num = k * Unit
        IN /\ out.exc = ""
           /\ inTable =>
                \E k \in DOMAIN EPOCHS :
                    /\ EPOCHS[k].level * Unit = lv.num
                    /\ out.val[1] = IF Called("get_epoch_by_level")
                                    THEN Some(EPOCHS[k])
                                    ELSE Some(EPOCHS[k].visual)
           /\ ~inTable => out.val[1] = None

\* the lookup of 3.5 has returned None
C1_Witness ==
    /\ Called("get_epoch_by_level")
    /\ call[1].level = FloatLevel(7 * HalfSteps)
    /\ ret[1].exc = ""
    /\ ret[1].val[1] = None

\* C2: the table has exactly 7 entries keyed 0..6; each entry's level equals
\* its key, its name, name_en, period, description and audio_prompt are
\* non-empty, both soundscape lists are non-empty, and its VisualParams
\* defines all seven fields.
C2_TableWellFormed ==
    /\ DOMAIN EPOCHS = 0..6
    /\ Cardinality(DOMAIN EPOCHS) = 7
    /\ \A k \in DOMAIN EPOCHS :
        LET e == EPOCHS[k]
        IN /\ e.level = k
           /\ e.name # "" /\ e.name_en # "" /\ e.period # ""
           /\ e.description # "" /\ e.audio_prompt # ""
           /\ Len(e.soundscape) > 0 /\ Len(e.soundscape_en) > 0
           /\ \A i \in 1..Len(e.soundscape) : e.soundscape[i] # ""
           /\ DOMAIN e.visual = FieldNames
           /\ \A f \in FieldNames : e.visual[f] \in Int

\* the last entry has been looked up and is the one the table defines for 6
C2_Witness ==
    /\ Called("get_epoch_by_level")
    /\ call[1].level = IntLevel(6)
    /\ ret[1].val[1] # None
    /\ ret[1].val[1][1].level = 6
    /\ ret[1].val[1][1].name = "Les temps anciens"
    /\ ret[1].val[1][1].visual.sepia * 100 = 95 * Scale

\* C3: at a whole level in [0,6], passed as an int or as a float, the result
\* of interpolate_epochs equals the table entry's VisualParams exactly, level
\* 6 included.
C3_ExactAtWholeLevels ==
    Called("interpolate_epochs") =>
        LET lv == call[1].level
        IN \A k \in 0..6 :
            lv.num = k * Unit =>
                /\ ret[1].exc = ""
                /\ ret[1].val = Some(EPOCHS[k].visual)

\* interpolate_epochs(6.0) has returned the parameters of epoch 6
C3_Witness ==
    /\ Called("interpolate_epochs")
    /\ call[1].level = FloatLevel(6 * Unit)
    /\ ret[1].val = Some(Epoch6.visual)

\* C4: for a level in [0,6], with lower = floor(level), upper = min(lower+1, 6)
\* and t = level - lower, every field f of the result is
\* lower.f + (upper.f - lower.f) * t, from the same field of the two entries
\* only; at level 0.5 every field is the mean of the two entries' values and
\* sepia is 0.075.
C4_LinearInterpolation ==
    Called("interpolate_epochs") =>
        LET lv == call[1].level
        IN (0 <= lv.num /\ lv.num <= 6 * Unit) =>
            \E lower \in 0..6 :
                /\ lower * Unit <= lv.num
                /\ lv.num < (lower + 1) * Unit
                /\ ret[1].exc = ""
                /\ LET upper == IF lower < 6 THEN lower + 1 ELSE 6
                       t == lv.num - lower * Unit
                       got == ret[1].val[1]
                   IN /\ \A f \in FieldNames :
                            got[f] * Unit =
                                EPOCHS[lower].visual[f] * Unit
                                + (EPOCHS[upper].visual[f]
                                   - EPOCHS[lower].visual[f]) * t
                      /\ 2 * lv.num = Unit =>
                            /\ \A f \in FieldNames :
                                2 * got[f] = EPOCHS[0].visual[f] + EPOCHS[1].visual[f]
                            /\ got.sepia * 1000 = 75 * Scale

\* interpolate_epochs(0.5) has returned sepia = 0.075, saturation = 0.95
C4_Witness ==
    /\ Called("interpolate_epochs")
    /\ call[1].level = FloatLevel(HalfSteps)
    /\ ret[1].val[1].sepia * 1000 = 75 * Scale
    /\ ret[1].val[1].saturation * 100 = 95 * Scale

\* C5: interpolate_epochs clamps its argument into [0,6] before it selects the
\* entries: every level <= 0 gives epoch 0's parameters, every level >= 6
\* epoch 6's, and only the keys 0..6 are subscripted.
C5_ClampedBeforeBracket ==
    Called("interpolate_epochs") =>
        LET lv == call[1].level
        IN /\ ret[1].exc = ""
           /\ ret[1].reads \subseteq 0..6
           /\ lv.num <= 0 => ret[1].val = Some(EPOCHS[0].visual)
           /\ lv.num >= 6 * Unit => ret[1].val = Some(EPOCHS[6].visual)

\* interpolate_epochs(-5) has returned the parameters of epoch 0
C5_Witness ==
    /\ Called("interpolate_epochs")
    /\ call[1].level.num = (0 - 5) * Unit
    /\ ret[1].exc = ""
    /\ ret[1].val = Some(Epoch0.visual)
    /\ ret[1].reads = {0, 1}

\* the place of each entry of the log in the documented order
StageRank(stage) ==
    CASE stage = "convert" -> 0
      [] stage = "blur" -> 1
      [] stage = "sepia" -> 2
      [] stage = "saturation" -> 3
      [] stage = "contrast" -> 4
      [] stage = "noise" -> 5
      [] stage = "vignette" -> 6
      [] stage = "fade" -> 7

\* C6: in every call of process the stages that execute do so in the order
\* blur, sepia, saturation, contrast, noise, vignette, fade, each at most
\* once, after the RGB conversion, and none after fade.
C6_FixedStageOrder ==
    \A i \in 1..Len(log) : \A j \in 1..Len(log) :
        i < j => StageRank(log[i]) < StageRank(log[j])

\* a call that converted its image and executed all seven stages
C6_Witness ==
    /\ Finished
    /\ log = <<"convert", "blur", "sepia", "saturation", "contrast", "noise",
               "vignette", "fade">>

\* the pipeline of the call ran to its end (process did not return early)
PipelineDone == Finished /\ params # None

\* C7 (as claimed): each stage is skipped exactly when its parameter equals
\* its neutral value, for every VisualParams value, negative ones included.
C7_SkippedIffNeutral ==
    PipelineDone =>
        LET p == params[1]
        IN /\ InLog("blur") <=> p.blur # 0
           /\ InLog("sepia") <=> p.sepia # 0
           /\ InLog("saturation") <=> p.saturation # Scale
           /\ InLog("contrast") <=> p.contrast # Scale
           /\ InLog("noise") <=> p.noise # 0
           /\ InLog("vignette") <=> p.vignette # 0
           /\ InLog("fade") <=> p.fade # 0

\* C7 (amended): blur, sepia, noise, vignette and fade execute exactly when
\* their parameter is greater than 0 (zero and negative values skip the
\* stage); saturation and contrast execute exactly when their parameter
\* differs from 1.
C7_SkippedIffNotPositive ==
    PipelineDone =>
        LET p == params[1]
        IN /\ InLog("blur") <=> p.blur > 0
           /\ InLog("sepia") <=> p.sepia > 0
           /\ InLog("saturation") <=> p.saturation # Scale
           /\ InLog("contrast") <=> p.contrast # Scale
           /\ InLog("noise") <=> p.noise > 0
           /\ InLog("vignette") <=> p.vignette > 0
           /\ InLog("fade") <=> p.fade > 0

\* a call with negative sepia and blur: both stages were skipped while
\* saturation and fade ran
C7_Witness ==
    /\ PipelineDone
    /\ params[1].sepia < 0 /\ params[1].blur < 0
    /\ ~InLog("sepia") /\ ~InLog("blur")
    /\ InLog("saturation") /\ InLog("fade")

\* the parameters of level 0
NeutralParams ==
    [sepia |-> 0, blur |-> 0, noise |-> 0, vignette |-> 0,
     saturation |-> Scale, contrast |-> Scale, fade |-> 0]

\* C8: processing an RGB image with the level-0 parameters, whether they come
\* from temporal_level 0 or are passed as custom params, executes no stage
\* and returns an image with the pixels of the input.
C8_LevelZeroIsIdentity ==
    (PipelineDone /\ params = Some(NeutralParams) /\ given[1].mode = "RGB") =>
        /\ log = <<>>
        /\ heap[result].mode = "RGB"
        /\ heap[result].size = given[1].size
        /\ heap[result].px = given[1].px

\* process(rgb image, 0) has returned a copy with the input's pixels
C8_Witness ==
    /\ PipelineDone
    /\ temporal_level[1] = IntLevel(0)
    /\ params = Some(NeutralParams)
    /\ given[1].mode = "RGB"
    /\ log = <<>>
    /\ result # image
    /\ heap[result].px = given[1].px

\* C9: for every image mode, level and params, process returns a 3-channel
\* RGB image of the input's width and height, an image that is not RGB having
\* been converted.
C9_AlwaysRGBSameSize ==
    Finished =>
        /\ heap[result].mode = "RGB"
        /\ heap[result].size = given[1].size
        /\ \A r \in 1..Len(heap[result].px) :
            \A c \in 1..Len(heap[result].px[r]) : Len(heap[result].px[r][c]) = 3
        /\ given[1].mode # "RGB" => InLog("convert")

\* C10: process never changes the image it was given: during and after the
\* call the caller's object has the mode, size and pixels it was passed with.
C10_InputUnchanged ==
    given # <<>> =>
        /\ heap[1].mode = given[1].mode
        /\ heap[1].size = given[1].size
        /\ heap[1].px = given[1].px

\* a call that ran the seven stages on an RGB image: the result differs from
\* the input, which is as it was
C10_Witness ==
    /\ PipelineDone
    /\ given[1].mode = "RGB"
    /\ Len(log) = 7
    /\ result # 1
    /\ heap[result].px # given[1].px
    /\ heap[1] = given[1]

\* C11: called without custom params and with a level outside [0,6], whole or
\* fractional, process runs the pipeline with the parameters of level 0 when
\* the level is below 0 and with those of level 6 when it is above 6.
C11_OutOfRangeClamped ==
    (Finished /\ passed = None) =>
        LET lv == temporal_level[1]
        IN /\ lv.num < 0 => params = Some(EPOCHS[0].visual)
           /\ lv.num > 6 * Unit => params = Some(EPOCHS[6].visual)

\* the level is not a key of the table
Unresolved(level) == DictGet(EPOCHS, level) = None

\* C12: whenever the table lookup of a caller's level gives nothing, the
\* caller substitutes epoch 0: generate returns epoch 0's name, period,
\* elements and base prompt, process_image reports epoch 0's information, and
\* process runs the pipeline with epoch 0's visual parameters.
C12_FallbackToEpochZero ==
    /\ (Called("generate") /\ Unresolved(call[1].level)) =>
        LET s == ret[1].val[1]
            french == language[1] = "fr"
        IN /\ s.epoch_level = EPOCHS[0].level
           /\ s.epoch_name = IF french THEN EPOCHS[0].name ELSE EPOCHS[0].name_en
           /\ s.period = EPOCHS[0].period
           /\ s.elements = IF french
                           THEN EPOCHS[0].soundscape
                           ELSE EPOCHS[0].soundscape_en
           /\ s.audio_prompt.base_prompt = EPOCHS[0].audio_prompt
    /\ (Called("process_image") /\ ret # <<>> /\ given # <<>>
            /\ Unresolved(call[1].level)) =>
        ret[1].val[1].epoch_info = epoch_info(EPOCHS[0])
    /\ (Finished /\ passed = None /\ IsWhole(temporal_level[1])
            /\ Unresolved(temporal_level[1])) =>
        params = Some(EPOCHS[0].visual)

\* C13: for every level passed to generate, the returned intensity is
\* max(0.1, 1 - level * 0.12) and the returned clarity is
\* max(0.1, 1 - level * 0.15), of the level passed (not of the epoch found).
C13_IntensityClarityFormulas ==
    Called("generate") =>
        LET num == call[1].level.num
            s == ret[1].val[1]
        IN /\ s.intensity * 100 = Max(10 * Scale, 100 * Scale - 12 * num * 100)
           /\ s.clarity * 100 = Max(10 * Scale, 100 * Scale - 15 * num * 100)

\* generate(7): epoch 0 was substituted, intensity is 0.16 and clarity is at
\* its floor 0.1
C13_Witness ==
    /\ Called("generate")
    /\ call[1].level = IntLevel(7)
    /\ ret[1].val[1].epoch_level = 0
    /\ ret[1].val[1].intensity * 100 = 16 * Scale
    /\ ret[1].val[1].clarity * 10 = Scale

\* C14: for any two levels a < b, generate(a) has intensity and clarity at
\* least those of generate(b); neither value is ever below 0.1; and level 0
\* has strictly greater intensity and clarity than level 6.
C14_MonotoneWithFloor ==
    Called("generate") =>
        LET a == call[1].level
            lang == language[1]
            s == ret[1].val[1]
        IN /\ \A b \in Levels :
                a.num < b.num =>
                    /\ s.intensity >= generate(EPOCHS, lang, b).intensity
                    /\ s.clarity >= generate(EPOCHS, lang, b).clarity
           /\ s.intensity * 10 >= Scale
           /\ s.clarity * 10 >= Scale
           /\ a.num = 0 =>
                /\ s.intensity > generate(EPOCHS, lang, IntLevel(6)).intensity
                /\ s.clarity > generate(EPOCHS, lang, IntLevel(6)).clarity

\* generate(100): both values are at the floor 0.1, below those of level 6
\* for intensity (0.28)
C14_Witness ==
    /\ Called("generate")
    /\ call[1].level = IntLevel(100)
    /\ ret[1].val[1].intensity * 10 = Scale
    /\ ret[1].val[1].clarity * 10 = Scale
    /\ generate(EPOCHS, language[1], IntLevel(6)).intensity * 100 = 28 * Scale

ReverbHints == <<0, 15, 30, 45, 60, 75, 80>>
LowpassHints == <<20000, 17000, 14000, 11000, 8000, 5000, 2000>>

\* C15: the audio prompt is the epoch's base prompt followed by a quality
\* descriptor and the hints reverb = min(level * 15, 80) percent and low-pass
\* = max(20000 - level * 3000, 2000) Hz; for the levels 0..6 the hints are
\* 0, 15, 30, 45, 60, 75, 80 and 20000, 17000, 14000, 11000, 8000, 5000, 2000.
C15_PromptHints ==
    Called("generate") =>
        LET lv == call[1].level
            p == ret[1].val[1].audio_prompt
            epoch == EPOCHS[ret[1].val[1].epoch_level]
        IN /\ p.base_prompt = epoch.audio_prompt
           /\ p.quality \in
                {"crystal clear, high fidelity, present-day",
                 "slightly muffled, warm analog quality, nostalgic",
                 "distant, echoing, as if through old walls, ghostly",
                 "barely audible whispers, dreamlike, fragmentary, ancient"}
           /\ p.reverb.num = Min(lv.num * 15, 80 * Unit)
           /\ p.lowpass.num = Max(20000 * Unit - lv.num * 3000, 2000 * Unit)
           /\ \A k \in 0..6 :
                lv = IntLevel(k) =>
                    /\ p.reverb = Number(FALSE, ReverbHints[k + 1] * Unit)
                    /\ p.lowpass = Number(FALSE, LowpassHints[k + 1] * Unit)

\* generate(6): the reverb hint is capped at 80 and the low-pass hint is 2000
C15_Witness ==
    /\ Called("generate")
    /\ call[1].level = IntLevel(6)
    /\ ret[1].val[1].audio_prompt.base_prompt = EPOCHS[6].audio_prompt
    /\ ret[1].val[1].audio_prompt.reverb.num = 80 * Unit
    /\ ret[1].val[1].audio_prompt.lowpass.num = 2000 * Unit

\* C16: the record to_dict exports has exactly the fields level, name, period,
\* elements, prompt, intensity and clarity, each with the value of
\* generate(level).
C16_DocumentedFieldNames ==
    Called("to_dict") =>
        LET d == ret[1].val[1]
            s == generate(EPOCHS, language[1], call[1].level)
        IN /\ DOMAIN d = {"level", "name", "period", "elements", "prompt",
                          "intensity", "clarity"}
           /\ d.level = s.epoch_level
           /\ d.name = s.epoch_name
           /\ d.prompt = s.audio_prompt

\* C16 (amended): the record to_dict exports has exactly the fields
\* epoch_level, epoch_name, period, elements, audio_prompt, intensity and
\* clarity, elements being a list of strings and intensity and clarity
\* numbers, and each field has the value of generate(level).
C16_SerializedFields ==
    Called("to_dict") =>
        LET d == ret[1].val[1]
            s == generate(EPOCHS, language[1], call[1].level)
        IN /\ DOMAIN d = {"epoch_level", "epoch_name", "period", "elements",
                          "audio_prompt", "intensity", "clarity"}
           /\ d.epoch_level = s.epoch_level
           /\ d.epoch_name = s.epoch_name
           /\ d.period = s.period
           /\ d.elements = s.elements
           /\ d.audio_prompt = s.audio_prompt
           /\ d.intensity = s.intensity
           /\ d.clarity = s.clarity
           /\ \A i \in 1..Len(d.elements) : d.elements[i] \in STRING
           /\ d.intensity \in Int /\ d.clarity \in Int

\* to_dict(3) of an English generator
C16_Witness ==
    /\ Called("to_dict")
    /\ language = <<"en">>
    /\ call[1].level = IntLevel(3)
    /\ ret[1].val[1].epoch_level = 3
    /\ ret[1].val[1].epoch_name = "Interwar Period"
    /\ Len(ret[1].val[1].elements) = 5

\* both of two identical calls have returned
BothDone == PipelineDone /\ first # <<>>

\* C17: the noise stage is the only source of nondeterminism: two calls of
\* process with the same image and the same parameters return pixel-identical
\* images when noise == 0, and more generally whenever the noise stage drew
\* the same numbers, so that blur, sepia, saturation, contrast, vignette and
\* fade map equal inputs to equal outputs.
C17_OnlyNoiseIsRandom ==
    (BothDone /\ (params[1].noise = 0 \/ drawn = first[1].drawn)) =>
        heap[result] = first[1].image

\* two calls with noise == 0 in which the six other stages ran gave the same
\* image, which is not the input
C17_Witness ==
    /\ BothDone
    /\ params[1].noise = 0
    /\ log = <<"blur", "sepia", "saturation", "contrast", "vignette", "fade">>
    /\ heap[result] = first[1].image
    /\ heap[result].px # given[1].px

\* C18: process never fails on numeric input: whatever the level and the
\* VisualParams, inside or outside the documented domains, no step raises,
\* the parameters passed are used as they are, and the call returns an
\* image; the lookups of the table do not raise either, an absent entry
\* being the value None.
C18_NeverRaises ==
    /\ pc # "raised"
    /\ Finished =>
        /\ result \in 1..Len(heap)
        /\ heap[result].mode \in {"L", "RGB", "RGBA"}
        /\ Len(heap[result].px) = heap[result].size[2]
        /\ \A r \in 1..Len(heap[result].px) :
            Len(heap[result].px[r]) = heap[result].size[1]
        /\ passed # None => params = passed
    /\ (Called("get_epoch_by_level") \/ Called("get_epoch_params")) =>
        ret[1].exc = ""

\* a call with negative sepia, blur, noise, vignette and fade and with
\* saturation and contrast 2.5, at level 7, has returned a new image
C18_Witness ==
    /\ Finished
    /\ temporal_level[1] = IntLevel(7)
    /\ passed # None
    /\ \A f \in {"sepia", "blur", "noise", "vignette", "fade"} : passed[1][f] < 0
    /\ passed[1].saturation > 2 * Scale /\ passed[1].contrast > 2 * Scale
    /\ result # 1
    /\ log = <<"saturation", "contrast">>

\* C19: no value handed to a caller shares mutable state with the epoch
\* table: whatever callers write to the values they were returned, every
\* later lookup, interpolation and generate gives what the original table
\* gives.
C19_CallersCannotChangeTable ==
    /\ Called("get_epoch_by_level") =>
        ret[1] = get_epoch_by_level(EpochTable, call[1].level)
    /\ Called("get_epoch_params") =>
        ret[1] = get_epoch_params(EpochTable, call[1].level)
    /\ Called("interpolate_epochs") =>
        ret[1] = interpolate_epochs(EpochTable, call[1].level)
    /\ Called("generate") =>
        ret[1].val[1] = generate(EpochTable, language[1], call[1].level)

\* the corner pixels and the center pixel (w // 2, h // 2) of an image, as
\* indices of its pixel sequence
Corners(img) ==
    {1, img.size[1], (img.size[2] - 1) * img.size[1] + 1,
     img.size[1] * img.size[2]}
Center(img) == (img.size[2] \div 2) * img.size[1] + (img.size[1] \div 2) + 1

\* darker: of lower luminance
Darker(p, q) == Luma(p) < Luma(q)

SevenStages ==
    <<"blur", "sepia", "saturation", "contrast", "noise", "vignette", "fade">>

\* process(sample_image, 3) has returned
BlueDone ==
    /\ Finished
    /\ given = <<sample_image>>
    /\ temporal_level = <<IntLevel(3)>>
    /\ passed = None

\* C20: processing the 100x100 uniform blue RGB image at level 3 executes the
\* seven stages in their order and returns a 100x100 3-channel image in which
\* each of the four corner pixels is darker than the center pixel.
C20_CornersDarker ==
    BlueDone =>
        LET out == heap[result]
        IN /\ log = SevenStages
           /\ out.mode = "RGB" /\ out.size = <<100, 100>>
           /\ \A r \in 1..100 : \A c \in 1..100 : Len(out.px[r][c]) = 3
           /\ \A c \in Corners(out) :
                Darker(Pixel(out, c), Pixel(out, Center(out)))

\* the noise stage drew no greater a number for pixel i than for the center
\* pixel in any channel, and for the center pixel none below -2 standard
\* deviations
NoiseFavoursCenter(img, i) ==
    \A ch \in 1..3 :
        /\ Sample(drawn[1], i, ch) <= Sample(drawn[1], Center(img), ch)
        /\ Sample(drawn[1], Center(img), ch) >= 0 - 2

\* C20 (amended): processing the 100x100 uniform blue RGB image at level 3
\* executes the seven stages in their order and returns a 100x100 3-channel
\* image; a corner pixel is darker than the center pixel whenever the noise
\* stage drew, in every channel, no greater a number for that corner than
\* for the center pixel and no number below -2 standard deviations for the
\* center pixel.
C20_CornersDarkerGivenNoise ==
    BlueDone =>
        LET out == heap[result]
        IN /\ log = SevenStages
           /\ out.mode = "RGB" /\ out.size = <<100, 100>>
           /\ \A r \in 1..100 : \A c \in 1..100 : Len(out.px[r][c]) = 3
           /\ \A c \in Corners(out) :
                NoiseFavoursCenter(out, c) =>
                    Darker(Pixel(out, c), Pixel(out, Center(out)))

\* the noise stage drew -2 for the first pixel and for the center pixel and
\* +2 for the last pixel: the first corner is darker than the center, the
\* last corner is not
C20_Witness ==
    /\ BlueDone
    /\ drawn = <<"tails">>
    /\ log = SevenStages
    /\ NoiseFavoursCenter(heap[result], 1)
    /\ Darker(Pixel(heap[result], 1), Pixel(heap[result], Center(heap[result])))
    /\ ~Darker(Pixel(heap[result], 10000),
               Pixel(heap[result], Center(heap[result])))

\* C21: params passed to process override the epoch defaults completely: the
\* pipeline runs with the params as passed, whatever the temporal_level, and
\* two calls with the same image and params (noise == 0) and different
\* temporal_level values, in the table or not, return the same image having
\* executed the same stages.
C21_LevelNotConsulted ==
    /\ (pc \notin {"idle", "params"} /\ passed # None) => params = passed
    /\ (Finished /\ passed # None /\ first # <<>>
            /\ first[1].level # temporal_level[1] /\ passed[1].noise = 0) =>
        heap[result] = first[1].image

\* the same image and params (noise == 0, five stages executed) at level 3
\* and then at level 7 gave the same image, which is not the input
C21_Witness ==
    /\ Finished /\ passed # None /\ first # <<>>
    /\ first[1].level = IntLevel(3)
    /\ temporal_level[1] = IntLevel(7)
    /\ passed[1].noise = 0
    /\ log = <<"blur", "sepia", "saturation", "contrast", "vignette", "fade">>
    /\ heap[result] = first[1].image
    /\ heap[result].px # given[1].px

\* the epoch a generator resolves for a level: the entry of the level, or
\* epoch 0
Resolved(level) == DictGetDefault(EPOCHS, level, EPOCHS[0])

\* C22: a generator constructed with language "fr" returns, for every level,
\* the epoch's French name and French element list, and French labels in
\* get_description; constructed with "en" it returns the English name, the
\* English element list and the labels Soundscape, Intensity and Clarity;
\* generate and get_description agree on the language, whatever it is.
C22_LanguageSelectsTexts ==
    /\ (Called("generate") /\ language = <<"fr">>) =>
        /\ ret[1].val[1].epoch_name = Resolved(call[1].level).name
        /\ ret[1].val[1].elements = Resolved(call[1].level).soundscape
    /\ (Called("generate") /\ language = <<"en">>) =>
        /\ ret[1].val[1].epoch_name = Resolved(call[1].level).name_en
        /\ ret[1].val[1].elements = Resolved(call[1].level).soundscape_en
    /\ (Called("get_description") /\ language = <<"fr">>) =>
        LET d == ret[1].val[1]
        IN /\ d.header = <<"Paysage sonore", Resolved(call[1].level).name,
                           Resolved(call[1].level).period>>
           /\ d.elements_header = "Elements sonores:"
           /\ d.elements_list = Resolved(call[1].level).soundscape
           /\ d.intensity_label = "Intensite"
           /\ d.clarity_label = "Clarte"
    /\ (Called("get_description") /\ language = <<"en">>) =>
        LET d == ret[1].val[1]
        IN /\ d.header = <<"Soundscape", Resolved(call[1].level).name_en,
                           Resolved(call[1].level).period>>
           /\ d.elements_header = "Sound elements:"
           /\ d.elements_list = Resolved(call[1].level).soundscape_en
           /\ d.intensity_label = "Intensity"
           /\ d.clarity_label = "Clarity"
    /\ Called("get_description") =>
        LET d == ret[1].val[1]
            e == Resolved(call[1].level)
            french == d.header[1] = "Paysage sonore"
        IN /\ d.header[1] \in {"Paysage sonore", "Soundscape"}
           /\ d.header[2] = IF french THEN e.name ELSE e.name_en
           /\ d.elements_list = IF french THEN e.soundscape ELSE e.soundscape_en
           /\ d.intensity_label = IF french THEN "Intensite" ELSE "Intensity"
           /\ d.clarity_label = IF french THEN "Clarte" ELSE "Clarity"
           /\ d.header[2] = generate(EPOCHS, language[1], call[1].level).epoch_name
           /\ d.elements_list = generate(EPOCHS, language[1], call[1].level).elements

\* get_description(2) of a French generator: French labels, name and elements,
\* which are not the English ones
C22_Witness ==
    /\ Called("get_description")
    /\ language = <<"fr">>
    /\ call[1].level = IntLevel(2)
    /\ ret[1].val[1].header =
            <<"Paysage sonore", "Generation precedente", "1960-1985">>
    /\ ret[1].val[1].intensity_label = "Intensite"
    /\ ret[1].val[1].elements_list[3] = "Accordeon dans les cafes"
    /\ ret[1].val[1].elements_list # EPOCHS[2].soundscape_en

\* C23: no library operation changes state that outlives the call: after any
\* sequence of lookups, interpolations, listings, process calls and generator
\* calls the epoch table, the processor's _cache (empty) and every other
\* object of the process are as they were, the random generator the caller
\* seeded included, so that the result of a call does not depend on the calls
\* before it: a lookup or a generator call returns what the initial table
\* gives, and process returns what the same call returned before.
C23_NoStateOutlivesCall ==
    /\ EPOCHS = EpochTable
    /\ _cache = <<>>
    /\ rng # None => rng[1].drawn = 0
    /\ Called("get_epoch_by_level") =>
        ret[1] = get_epoch_by_level(EpochTable, call[1].level)
    /\ Called("get_epoch_params") =>
        ret[1] = get_epoch_params(EpochTable, call[1].level)
    /\ Called("interpolate_epochs") =>
        ret[1] = interpolate_epochs(EpochTable, call[1].level)
    /\ Called("list_epochs") => ret[1].val[1] = list_epochs(EpochTable)
    /\ Called("generate") =>
        ret[1].val[1] = generate(EpochTable, language[1], call[1].level)
    /\ Called("get_description") =>
        ret[1].val[1] = get_description(EpochTable, language[1], call[1].level)
    /\ Called("to_dict") =>
        ret[1].val[1] = to_dict(EpochTable, language[1], call[1].level)
    /\ Called("get_all_soundscapes") =>
        ret[1].val[1] = get_all_soundscapes(EpochTable, language[1])
    /\ (Finished /\ first # <<>> /\ rng # None) =>
        heap[result] = first[1].image

\* a value clamped to the channel range
Clamped(x) == IF x < 0 THEN 0 ELSE IF x > 255 THEN 255 ELSE x

\* the stage executed last, the image it was given and the image it made
LastStage == IF log = <<>> THEN "" ELSE log[Len(log)]
StageInput == heap[result - 1]
StageOutput == heap[result]

\* the value the last stage computed for channel ch of the pixel at row r and
\* column c, before it was stored
Computed(r, c, ch) ==
    LET p == StageInput.px[r][c]
        i == (r - 1) * StageInput.size[1] + c
    IN CASE LastStage = "sepia" -> SepiaValue(p, ch, params[1].sepia)
         [] LastStage = "saturation" ->
                BlendValue(Luma(p), p[ch], params[1].saturation)
         [] LastStage = "noise" ->
                NoiseValue(p[ch], Sample(drawn[1], i, ch), params[1].noise)
         [] LastStage = "fade" -> FadeValue(p[ch], ch, params[1].fade)

\* C24: after every executed stage, for every parameter value, those outside
\* the documented domains included, every channel of every pixel is an
\* integer in 0..255; a value computed below 0 is stored as 0 and one above
\* 255 as 255, never modulo 256, before the next stage sees it.
C24_ClampedNotWrapped ==
    /\ \A id \in 1..Len(heap) :
        \A r \in 1..Len(heap[id].px) : \A c \in 1..Len(heap[id].px[r]) :
            \A ch \in 1..Len(heap[id].px[r][c]) :
                heap[id].px[r][c][ch] \in 0..255
    /\ (result > 1 /\ LastStage \in {"sepia", "saturation", "noise", "fade"}) =>
        \A r \in 1..Len(StageOutput.px) : \A c \in 1..Len(StageOutput.px[r]) :
            \A ch \in 1..3 :
                StageOutput.px[r][c][ch] = Clamped(Computed(r, c, ch))

\* a fade of intensity 2.5 has computed a value above 255 for one pixel,
\* stored as 255, and a value in range for another
C24_Witness ==
    /\ result > 1
    /\ LastStage = "fade"
    /\ params[1].fade > Scale
    /\ \E r \in 1..3 : \E c \in 1..3 : \E ch \in 1..3 :
        /\ Computed(r, c, ch) > 255
        /\ StageOutput.px[r][c][ch] = 255
    /\ \E r \in 1..3 : \E c \in 1..3 : \E ch \in 1..3 :
        /\ Computed(r, c, ch) \in 1..254
        /\ StageOutput.px[r][c][ch] = Computed(r, c, ch)

\* the fields that grow with the level, and those that shrink
AgingFields == {"sepia", "blur", "noise", "vignette", "fade"}
FadingFields == {"saturation", "contrast"}

\* the documented domain of a field, on numerators over Scale: intensities in
\* [0, 1], factors in [0, 2], a blur radius not negative
InDomain(f, v) ==
    IF f = "blur" THEN v >= 0
    ELSE IF f \in FadingFields THEN 0 <= v /\ v <= 2 * Scale
    ELSE 0 <= v /\ v <= Scale

\* C25: the resolved parameters age monotonically with the level: for levels
\* a <= b, interpolate_epochs(a) has sepia, blur, noise, vignette and fade no
\* greater than interpolate_epochs(b), and saturation and contrast no smaller;
\* every resolved field lies between its epoch-0 and epoch-6 table values,
\* and so within its documented domain.
C25_MonotoneAging ==
    Called("interpolate_epochs") =>
        LET a == call[1].level
            pa == ret[1].val[1]
        IN /\ ret[1].exc = ""
           /\ \A b \in Levels :
                a.num <= b.num =>
                    LET pb == interpolate_epochs(EPOCHS, b).val[1]
                    IN /\ \A f \in AgingFields : pa[f] <= pb[f]
                       /\ \A f \in FadingFields : pa[f] >= pb[f]
           /\ \A f \in AgingFields :
                EPOCHS[0].visual[f] <= pa[f] /\ pa[f] <= EPOCHS[6].visual[f]
           /\ \A f \in FadingFields :
                EPOCHS[6].visual[f] <= pa[f] /\ pa[f] <= EPOCHS[0].visual[f]
           /\ \A f \in FieldNames : InDomain(f, pa[f])

\* interpolate_epochs(2.5): every field is strictly between the values of
\* epochs 2 and 3
C25_Witness ==
    /\ Called("interpolate_epochs")
    /\ call[1].level = FloatLevel(5 * HalfSteps)
    /\ \A f \in AgingFields :
        /\ EPOCHS[2].visual[f] < ret[1].val[1][f]
        /\ ret[1].val[1][f] < EPOCHS[3].visual[f]
    /\ \A f \in FadingFields :
        /\ EPOCHS[3].visual[f] < ret[1].val[1][f]
        /\ ret[1].val[1][f] < EPOCHS[2].visual[f]

\* C26: for every level passed to generate, levels outside 0..6 included, for
\* which epoch 0 is substituted, the derived values are within their
\* documented ranges: intensity and clarity in [0.1, 1.0], the reverb hint of
\* the prompt in [0, 80] percent, its low-pass hint in [2000, 20000] Hz, and
\* the returned epoch_level in 0..6.
C26_DerivedValuesInRange ==
    Called("generate") =>
        LET s == ret[1].val[1]
        IN /\ Tenth <= s.intensity /\ s.intensity <= Scale
           /\ Tenth <= s.clarity /\ s.clarity <= Scale
           /\ 0 <= s.audio_prompt.reverb.num
           /\ s.audio_prompt.reverb.num <= 80 * Unit
           /\ 2000 * Unit <= s.audio_prompt.lowpass.num
           /\ s.audio_prompt.lowpass.num <= 20000 * Unit
           /\ s.epoch_level \in 0..6

====
